---- MODULE Spec2Model ----
(***************************************************************************)
(* Model of dashboard_graphs.py: the maternal-health dashboard.            *)
(*                                                                         *)
(* A column header is a sequence of tokens: a token is one whitespace      *)
(* character (SP, TAB) or one run of non-whitespace characters.  A cell is *)
(* a record: a number, a text, or the missing value NaN.  A DataFrame is a *)
(* record of its column headers and its rows; None is the absent frame.    *)
(***************************************************************************)
EXTENDS Integers, Sequences, FiniteSets, TLC

VARIABLES
    response,              \* what the HTTP GET of line 57 will produce
    api_endpoint,          \* self.api_endpoint
    maternal_health_data,  \* self.maternal_health_data
    st_out,                \* the calls made to streamlit: error, subheader, plotly_chart
    px_in,                 \* the calls made to plotly express: scatter, pie
    calls,                 \* the chart operations called so far, in order
    raised,                \* the exception that escaped to the caller, or "none"
    pc,                    \* "new", "ready" (constructed), "crashed", "clean", "cleaned"
    df_in,                 \* _clean_column_names: the frame passed in
    df_out                 \* _clean_column_names: the frame returned

vars == <<response, api_endpoint, maternal_health_data, st_out, px_in, calls,
          raised, pc, df_in, df_out>>

---------------------------------------------------------------------------
(* Bounds of the model *)

\* the data lines of a response body
MaxRows == 3
\* the chart operations called on one dashboard
MaxCalls == 2
\* the whitespace characters padding a header, both sides together
MaxPad == 2
\* the columns of a frame given to _clean_column_names alone
MaxCols == 2

---------------------------------------------------------------------------
(* Strings *)

SP == " "
TAB == "\t"

IsSpace(tok) == tok \in {SP, TAB}

RECURSIVE lstrip(_)
lstrip(s) == IF s = <<>> THEN s ELSE IF IsSpace(Head(s)) THEN lstrip(Tail(s)) ELSE s

RECURSIVE rstrip(_)
rstrip(s) == IF s = <<>> THEN s ELSE IF IsSpace(s[Len(s)]) THEN rstrip(SubSeq(s, 1, Len(s) - 1)) ELSE s

\* str.strip()
strip(s) == rstrip(lstrip(s))

\* the three long headers of the source and their short names
LongNeedAssessed == <<"Need", SP, "Assessed", SP, "(2019-20)", SP, "-", SP, "(A)">>
LongAchievement == <<"Achievement", SP, "during", SP, "April", SP, "to", SP, "June", SP, "-", SP, "Total", SP, "Institutional", SP, "Deliveries", SP, "-", SP, "(2019-20)", SP, "-", SP, "(B)">>
LongPctAchievement == <<"%", SP, "Achvt", SP, "of", SP, "need", SP, "assessed", SP, "(2019-20)", SP, "-", SP, "(E=(B/A)*100)">>

NeedAssessed == <<"Need", SP, "Assessed">>
Achievement == <<"Achievement">>
PctAchievement == <<"%", SP, "Achievement">>
StateUT == <<"State/UT">>

---------------------------------------------------------------------------
(* Cells and frames *)

NUM(n) == [k |-> "num", n |-> n, s |-> ""]
TXT(s) == [k |-> "str", n |-> 0, s |-> s]
NaN == [k |-> "nan", n |-> 0, s |-> ""]

None == [none |-> TRUE, columns |-> <<>>, rows |-> <<>>]
DataFrame(c, r) == [none |-> FALSE, columns |-> c, rows |-> r]

\* the outcome of a call: a value, or an exception
Ok(v) == [ok |-> TRUE, exc |-> "none", val |-> v]
Raise(e) == [ok |-> FALSE, exc |-> e, val |-> None]

HasColumn(df, name) == \E i \in 1..Len(df.columns) : df.columns[i] = name

\* the position of the column a name selects
ColumnIndex(df, name) == CHOOSE i \in 1..Len(df.columns) : /\ df.columns[i] = name
                                                           /\ \A j \in 1..(i - 1) : df.columns[j] # name

---------------------------------------------------------------------------
(* _clean_column_names *)

rename(col) == CASE col = LongNeedAssessed -> NeedAssessed
                 [] col = LongAchievement -> Achievement
                 [] col = LongPctAchievement -> PctAchievement
                 [] OTHER -> col

\* _clean_column_names that renames before it strips
_clean_column_names_rename_first(df) == DataFrame([i \in 1..Len(df.columns) |-> strip(rename(df.columns[i]))], df.rows)

_clean_column_names(df) == DataFrame([i \in 1..Len(df.columns) |-> rename(strip(df.columns[i]))], df.rows)

---------------------------------------------------------------------------
(* The HTTP response and the CSV text it carries *)

\* the endpoint of the script, and another one
Endpoints == {"https://api.data.gov.in/resource/6d6a373a?format=csv", "https://example.org/other.csv"}

Statuses == {101, 200, 304, 404, 503}

\* header lines: the schema of the API (padded), one whose Achievement header is
\* not a known long form, one without a State/UT header
HeaderFull == <<StateUT, <<SP>> \o LongNeedAssessed, LongAchievement \o <<TAB>>, LongPctAchievement>>
HeaderNoAchievement == <<StateUT, LongNeedAssessed, <<"Achievement", SP, "(B)">>, LongPctAchievement>>
HeaderNoStateUT == <<<<"State">>, LongNeedAssessed, LongAchievement, LongPctAchievement>>
Headers == {HeaderFull, HeaderNoAchievement, HeaderNoStateUT}

\* data lines, as fields: an empty field is TXT("")
DataLines == { <<TXT("StateA"), NUM(100), NUM(50), NUM(50)>>,
               <<TXT("StateB"), NUM(200), NUM(70), NUM(40)>>,
               <<TXT("All India"), NUM(300), NUM(120), NUM(40)>>,
               <<TXT("StateC"), TXT(""), TXT("n/a"), NUM(10)>>,
               <<TXT("StateC"), NUM(100), NUM(30), TXT("")>>,
               <<TXT("StateD"), NUM(100)>>,
               <<TXT("StateD"), NUM(100), NUM(30), NUM(30), TXT("x")>> }

SeqsUpTo(S, n) == UNION {[1..k -> S] : k \in 0..n}

EmptyBody == [empty |-> TRUE, header |-> <<>>, lines |-> <<>>]
Bodies == {EmptyBody} \cup {[empty |-> FALSE, header |-> h, lines |-> l] : h \in Headers, l \in SeqsUpTo(DataLines, MaxRows)}

Responses == {[transport |-> "ConnectionError", status |-> 0, body |-> EmptyBody]}
             \cup {[transport |-> "ok", status |-> s, body |-> b] : s \in Statuses, b \in Bodies}

---------------------------------------------------------------------------
(* pd.read_csv *)

Max(a, b) == IF a > b THEN a ELSE b

\* a field as the parser stores it: an empty field is the missing value (the
\* dtype the parser gives a whole column is not modelled: a number stays a number
\* next to a text)
ParseField(f) == IF f = TXT("") THEN NaN ELSE f

\* a line filled up with missing fields to the width of the frame, less the
\* leading fields that become the index
ParseLine(line, ncols, width) == [j \in 1..ncols |-> IF j + (width - ncols) <= Len(line) THEN ParseField(line[j + (width - ncols)]) ELSE NaN]

\* no text: EmptyDataError.  The first data line sets the width (fields beyond the
\* header's become the index); a later line with more fields: ParserError; a line
\* with fewer fields is filled up with missing values.
read_csv(body) == IF body.empty THEN Raise("EmptyDataError")
                  ELSE LET ncols == Len(body.header)
                           width == IF body.lines = <<>> THEN ncols ELSE Max(ncols, Len(body.lines[1]))
                       IN  IF \E i \in 2..Len(body.lines) : Len(body.lines[i]) > width
                           THEN Raise("ParserError")
                           ELSE Ok(DataFrame(body.header, [i \in 1..Len(body.lines) |-> ParseLine(body.lines[i], ncols, width)]))

---------------------------------------------------------------------------
(* fetch_data_from_api *)

st_error(text) == [call |-> "error", text |-> text, fig |-> <<>>]
st_subheader(text) == [call |-> "subheader", text |-> text, fig |-> <<>>]
st_plotly_chart(fig) == [call |-> "plotly_chart", text |-> <<>>, fig |-> fig]

\* raise_for_status that raises for server errors only
raise_for_status_5xx(status) == 500 <= status /\ status < 600

\* response.raise_for_status(): TRUE when it raises HTTPError
raise_for_status(status) == 400 <= status /\ status < 600

\* the subclasses of requests.exceptions.RequestException
IsRequestException(e) == e \in {"ConnectionError", "Timeout", "HTTPError"}

\* the try statement without the call of raise_for_status
TryBody_no_status_check(resp) == IF resp.transport # "ok" THEN Raise(resp.transport)
                                 ELSE LET data == read_csv(resp.body)
                                      IN  IF data.ok THEN Ok(_clean_column_names(data.val)) ELSE data

\* the body of the try statement: get, raise_for_status, read_csv, _clean_column_names
TryBody(resp) == IF resp.transport # "ok" THEN Raise(resp.transport)
                 ELSE IF raise_for_status(resp.status) THEN Raise("HTTPError")
                 ELSE LET data == read_csv(resp.body)
                      IN  IF data.ok THEN Ok(_clean_column_names(data.val)) ELSE data

\* fetch_data_from_api with the first handler only
fetch_data_from_api_one_handler(endpoint) == LET r == TryBody(response)
                                             IN  IF r.ok THEN [ret |-> r.val, out |-> <<>>, escaped |-> "none"]
                                                 ELSE IF IsRequestException(r.exc)
                                                 THEN [ret |-> None, out |-> <<st_error(<<"Error during API request: ", r.exc>>)>>, escaped |-> "none"]
                                                 ELSE [ret |-> None, out |-> <<>>, escaped |-> r.exc]

fetch_data_from_api(endpoint) == LET r == TryBody(response)
                                 IN  IF r.ok THEN [ret |-> r.val, out |-> <<>>, escaped |-> "none"]
                                     ELSE IF IsRequestException(r.exc)
                                     THEN [ret |-> None, out |-> <<st_error(<<"Error during API request: ", r.exc>>)>>, escaped |-> "none"]
                                     ELSE [ret |-> None, out |-> <<st_error(<<"An error occurred while processing the data: ", r.exc>>)>>, escaped |-> "none"]

---------------------------------------------------------------------------
(* MaternalHealthDashboard *)

AllIndia == TXT("All India")

\* drop_all_india that keeps every row
drop_all_india_keep(df) == IF HasColumn(df, StateUT) THEN Ok(df) ELSE Raise("KeyError")

\* drop_all_india that also drops the rows holding a cell that is no number
\* in a column other than State/UT
drop_all_india_dropna(df) == IF ~HasColumn(df, StateUT) THEN Raise("KeyError")
                             ELSE Ok(DataFrame(df.columns, SelectSeq(df.rows, LAMBDA r : /\ r[ColumnIndex(df, StateUT)] # AllIndia
                                                                                        /\ \A j \in 1..Len(r) : j = ColumnIndex(df, StateUT) \/ r[j].k = "num")))

drop_all_india(df) == IF ~HasColumn(df, StateUT) THEN Raise("KeyError")
                      ELSE Ok(DataFrame(df.columns, SelectSeq(df.rows, LAMBDA r : r[ColumnIndex(df, StateUT)] # AllIndia)))

BubbleTitle == <<"Bubble Chart: Need Assessed vs Achievement">>
PieTitle == <<"Proportion of Institutional Deliveries by State/UT">>

\* the scatter call with the two axes exchanged
ScatterCall_swapped(df) == [fn |-> "scatter", data_frame |-> df, x |-> Achievement, y |-> NeedAssessed, size |-> PctAchievement, color |-> StateUT, hover_name |-> StateUT, title |-> BubbleTitle]

\* the pie call with the slice values taken from Need Assessed
PieCall_need(df) == [fn |-> "pie", data_frame |-> df, names |-> StateUT, values |-> NeedAssessed, title |-> PieTitle]

\* the arguments of px.scatter and of px.pie
ScatterCall(df) == [fn |-> "scatter", data_frame |-> df, x |-> NeedAssessed, y |-> Achievement, size |-> PctAchievement, color |-> StateUT, hover_name |-> StateUT, title |-> BubbleTitle]
PieCall(df) == [fn |-> "pie", data_frame |-> df, names |-> StateUT, values |-> Achievement, title |-> PieTitle]

\* the cell of a row under a column name
Cell(df, r, name) == r[ColumnIndex(df, name)]

\* px.scatter: every argument names a column, every size is a number; one mark per row
px_scatter(c) == LET df == c.data_frame
                 IN  IF \E a \in {c.x, c.y, c.size, c.color, c.hover_name} : ~HasColumn(df, a) THEN Raise("ValueError")
                     ELSE IF \E i \in 1..Len(df.rows) : Cell(df, df.rows[i], c.size).k # "num" THEN Raise("ValueError")
                     ELSE Ok([kind |-> "scatter", title |-> c.title,
                              marks |-> [i \in 1..Len(df.rows) |->
                                 [x |-> Cell(df, df.rows[i], c.x), y |-> Cell(df, df.rows[i], c.y),
                                  size |-> Cell(df, df.rows[i], c.size),
                                  color |-> Cell(df, df.rows[i], c.color), hover_name |-> Cell(df, df.rows[i], c.hover_name)]]])

\* px.pie: both arguments name a column; one slice per row
px_pie(c) == LET df == c.data_frame
             IN  IF \E a \in {c.names, c.values} : ~HasColumn(df, a) THEN Raise("ValueError")
                 ELSE Ok([kind |-> "pie", title |-> c.title,
                          marks |-> [i \in 1..Len(df.rows) |->
                             [names |-> Cell(df, df.rows[i], c.names), values |-> Cell(df, df.rows[i], c.values)]]])

Init == /\ response \in Responses
        /\ api_endpoint = ""
        /\ maternal_health_data = None
        /\ st_out = <<>>
        /\ px_in = <<>>
        /\ calls = <<>>
        /\ raised = "none"
        /\ pc = "new"
        /\ df_in = None
        /\ df_out = None

__init__ == /\ pc = "new"
            /\ \E ep \in Endpoints :
                 LET got == fetch_data_from_api(ep)
                 IN  /\ api_endpoint' = ep
                     /\ st_out' = st_out \o got.out
                     /\ maternal_health_data' = got.ret
                     /\ raised' = got.escaped
                     /\ pc' = IF got.escaped = "none" THEN "ready" ELSE "crashed"
            /\ UNCHANGED <<response, px_in, calls, df_in, df_out>>

\* create_bubble_chart without its guard on the absent table
create_bubble_chart_no_guard ==
    /\ pc = "ready"
    /\ Len(calls) < MaxCalls
    /\ calls' = Append(calls, "bubble")
    /\ IF maternal_health_data = None
       THEN /\ st_out' = Append(st_out, st_subheader(BubbleTitle))
            /\ raised' = "TypeError"
            /\ pc' = "crashed"
            /\ UNCHANGED px_in
       ELSE LET df == drop_all_india(maternal_health_data)
                fig == px_scatter(ScatterCall(df.val))
            IN  IF ~df.ok
                THEN /\ st_out' = Append(st_out, st_subheader(BubbleTitle))
                     /\ raised' = df.exc
                     /\ pc' = "crashed"
                     /\ UNCHANGED px_in
                ELSE /\ px_in' = Append(px_in, ScatterCall(df.val))
                     /\ IF fig.ok
                        THEN /\ st_out' = st_out \o <<st_subheader(BubbleTitle), st_plotly_chart(fig.val)>>
                             /\ UNCHANGED <<raised, pc>>
                        ELSE /\ st_out' = Append(st_out, st_subheader(BubbleTitle))
                             /\ raised' = fig.exc
                             /\ pc' = "crashed"
    /\ UNCHANGED <<response, api_endpoint, maternal_health_data, df_in, df_out>>

\* the guard; the subheader; the filter (KeyError without a State/UT column); the
\* figure (ValueError from px.scatter); the rendering
create_bubble_chart ==
    /\ pc = "ready"
    /\ Len(calls) < MaxCalls
    /\ calls' = Append(calls, "bubble")
    /\ IF maternal_health_data = None
       THEN UNCHANGED <<st_out, px_in, raised, pc>>
       ELSE LET df == drop_all_india(maternal_health_data)
                fig == px_scatter(ScatterCall(df.val))
            IN  IF ~df.ok
                THEN /\ st_out' = Append(st_out, st_subheader(BubbleTitle))
                     /\ raised' = df.exc
                     /\ pc' = "crashed"
                     /\ UNCHANGED px_in
                ELSE /\ px_in' = Append(px_in, ScatterCall(df.val))
                     /\ IF fig.ok
                        THEN /\ st_out' = st_out \o <<st_subheader(BubbleTitle), st_plotly_chart(fig.val)>>
                             /\ UNCHANGED <<raised, pc>>
                        ELSE /\ st_out' = Append(st_out, st_subheader(BubbleTitle))
                             /\ raised' = fig.exc
                             /\ pc' = "crashed"
    /\ UNCHANGED <<response, api_endpoint, maternal_health_data, df_in, df_out>>

\* create_pie_chart that keeps the filtered frame as the dashboard's table
create_pie_chart_inplace ==
    /\ pc = "ready"
    /\ Len(calls) < MaxCalls
    /\ calls' = Append(calls, "pie")
    /\ IF maternal_health_data = None
       THEN UNCHANGED <<st_out, px_in, raised, pc, maternal_health_data>>
       ELSE LET df == drop_all_india(maternal_health_data)
                fig == px_pie(PieCall(df.val))
            IN  IF ~df.ok
                THEN /\ st_out' = Append(st_out, st_subheader(PieTitle))
                     /\ raised' = df.exc
                     /\ pc' = "crashed"
                     /\ UNCHANGED <<px_in, maternal_health_data>>
                ELSE /\ maternal_health_data' = df.val
                     /\ px_in' = Append(px_in, PieCall(df.val))
                     /\ IF fig.ok
                        THEN /\ st_out' = st_out \o <<st_subheader(PieTitle), st_plotly_chart(fig.val)>>
                             /\ UNCHANGED <<raised, pc>>
                        ELSE /\ st_out' = Append(st_out, st_subheader(PieTitle))
                             /\ raised' = fig.exc
                             /\ pc' = "crashed"
    /\ UNCHANGED <<response, api_endpoint, df_in, df_out>>

\* the guard; the subheader; the filter (KeyError without a State/UT column); the
\* figure (ValueError from px.pie); the rendering
create_pie_chart ==
    /\ pc = "ready"
    /\ Len(calls) < MaxCalls
    /\ calls' = Append(calls, "pie")
    /\ IF maternal_health_data = None
       THEN UNCHANGED <<st_out, px_in, raised, pc>>
       ELSE LET df == drop_all_india(maternal_health_data)
                fig == px_pie(PieCall(df.val))
            IN  IF ~df.ok
                THEN /\ st_out' = Append(st_out, st_subheader(PieTitle))
                     /\ raised' = df.exc
                     /\ pc' = "crashed"
                     /\ UNCHANGED px_in
                ELSE /\ px_in' = Append(px_in, PieCall(df.val))
                     /\ IF fig.ok
                        THEN /\ st_out' = st_out \o <<st_subheader(PieTitle), st_plotly_chart(fig.val)>>
                             /\ UNCHANGED <<raised, pc>>
                        ELSE /\ st_out' = Append(st_out, st_subheader(PieTitle))
                             /\ raised' = fig.exc
                             /\ pc' = "crashed"
    /\ UNCHANGED <<response, api_endpoint, maternal_health_data, df_in, df_out>>

Next == __init__ \/ create_bubble_chart \/ create_pie_chart

Spec == Init /\ [][Next]_vars

---------------------------------------------------------------------------
(* _clean_column_names on its own: headers padded on both sides *)

Pad(n, ws) == [i \in 1..n |-> ws]

\* the long forms, a short name, a long form with a TAB for a space, another
\* header, the empty header
Cores == {LongNeedAssessed, LongAchievement, LongPctAchievement, NeedAssessed, StateUT,
          <<"Need", TAB, "Assessed", SP, "(2019-20)", SP, "-", SP, "(A)">>, <<>>}

\* at most MaxPad whitespace characters around a header: spaces before, tabs after
PaddedHeaders == {Pad(lr[1], SP) \o c \o Pad(lr[2], TAB) : lr \in {x \in (0..MaxPad) \X (0..MaxPad) : x[1] + x[2] <= MaxPad}, c \in Cores}

\* a frame of one row whose cells number the columns
FrameOf(cols) == DataFrame(cols, <<[i \in 1..Len(cols) |-> NUM(i)]>>)

InitClean == /\ df_in \in {FrameOf(cols) : cols \in SeqsUpTo(PaddedHeaders, MaxCols)}
             /\ df_out = None
             /\ pc = "clean"
             /\ response = [transport |-> "ConnectionError", status |-> 0, body |-> EmptyBody]
             /\ api_endpoint = ""
             /\ maternal_health_data = None
             /\ st_out = <<>>
             /\ px_in = <<>>
             /\ calls = <<>>
             /\ raised = "none"

CleanColumnNames == /\ pc = "clean"
                    /\ df_out' = _clean_column_names(df_in)
                    /\ pc' = "cleaned"
                    /\ UNCHANGED <<response, api_endpoint, maternal_health_data, st_out, px_in, calls, raised, df_in>>

NextClean == CleanColumnNames

SpecClean == InitClean /\ [][NextClean]_vars

---------------------------------------------------------------------------
(* What the claims are stated with *)

Constructed == pc \in {"ready", "crashed"}

\* the rows of a frame that are not the aggregate row, by position
Kept(df) == {i \in 1..Len(df.rows) : df.rows[i][ColumnIndex(df, StateUT)] # AllIndia}

\* the position, among the kept rows, of kept row i
Rank(df, i) == Cardinality({j \in Kept(df) : j <= i})

\* rows is the frame's rows without the aggregate rows, in the frame's order
IsFiltered(df, rows) == /\ Len(rows) = Cardinality(Kept(df))
                        /\ \A i \in Kept(df) : rows[Rank(df, i)] = df.rows[i]

\* the figures rendered so far, of one kind
Rendered(kind) == {n \in 1..Len(st_out) : st_out[n].call = "plotly_chart" /\ st_out[n].fig.kind = kind}

HasAllIndiaRow(df) == /\ HasColumn(df, StateUT)
                      /\ \E i \in 1..Len(df.rows) : i \notin Kept(df)

\* a cell's number; a cell that is no number counts for nothing
Value(c) == IF c.k = "num" THEN c.n ELSE 0

RECURSIVE SumValues(_)
SumValues(marks) == IF marks = <<>> THEN 0 ELSE Value(Head(marks).values) + SumValues(Tail(marks))

RECURSIVE SumOver(_, _, _)
SumOver(df, name, rowset) == IF rowset = {} THEN 0
                             ELSE LET i == CHOOSE i \in rowset : TRUE
                                  IN  Value(df.rows[i][ColumnIndex(df, name)]) + SumOver(df, name, rowset \ {i})

\* h without a whitespace characters at its start and b at its end
Cut(h, a, b) == SubSeq(h, a + 1, Len(h) - b)

\* how many characters can go from the start of h, and from its end, all of them
\* whitespace
Leading(h) == {a \in 0..Len(h) : \A i \in 1..a : IsSpace(h[i])}
Trailing(h) == {b \in 0..Len(h) : \A i \in (Len(h) - b + 1)..Len(h) : IsSpace(h[i])}

\* what is left of h by taking whitespace, and only whitespace, off both ends
\* until neither end is whitespace
Trims(h) == {Cut(h, ab[1], ab[2]) : ab \in {x \in Leading(h) \X Trailing(h) :
                /\ x[1] + x[2] <= Len(h)
                /\ \/ x[1] + x[2] = Len(h)
                   \/ (~IsSpace(h[x[1] + 1]) /\ ~IsSpace(h[Len(h) - x[2]]))}}

\* the header the normalizer is to give for a trimmed header
Canonical(t) == IF t = LongNeedAssessed THEN NeedAssessed
                ELSE IF t = LongAchievement THEN Achievement
                ELSE IF t = LongPctAchievement THEN PctAchievement
                ELSE t

\* text that pd.read_csv cannot turn into a frame: no text at all, or a data line
\* with more fields than the header and the first data line have
MalformedCSV(body) == \/ body.empty
                      \/ \E i \in 2..Len(body.lines) : /\ Len(body.lines[i]) > Len(body.header)
                                                       /\ Len(body.lines[i]) > Len(body.lines[1])

Is2xx(status) == 200 <= status /\ status < 300
IsErrorStatus(status) == status \in 400..599

FetchErrorMessage == st_error(<<"Error during API request: ", "HTTPError">>)

\* the messages st.error has shown
Errors == {n \in 1..Len(st_out) : st_out[n].call = "error"}

RequiredColumns == {StateUT, NeedAssessed, Achievement, PctAchievement}

---------------------------------------------------------------------------
(* The claims *)

\* C1: the rows handed to px.scatter and to px.pie are exactly the rows of the
\* dashboard's table whose State/UT is not "All India", in the table's order,
\* under the table's headers.
C1_RowsHandedExcludeOnlyAllIndia == \A n \in 1..Len(px_in) : /\ px_in[n].data_frame.columns = maternal_health_data.columns
                                                            /\ IsFiltered(maternal_health_data, px_in[n].data_frame.rows)

\* C1 witness: a table holding an aggregate row after another row has been handed
\* to both charts.
C1_Witness == /\ \E n \in 1..Len(px_in) : px_in[n].fn = "scatter"
              /\ \E n \in 1..Len(px_in) : px_in[n].fn = "pie"
              /\ Len(maternal_health_data.rows) >= 2
              /\ HasAllIndiaRow(maternal_health_data)
              /\ Kept(maternal_health_data) # {}

\* C2: _clean_column_names keeps the number and order of the columns and the rows;
\* each header comes out as the short name of the long form it is once trimmed,
\* and otherwise trimmed and nothing else.
C2_HeadersTrimmedAndRenamed == pc = "cleaned" =>
                                  /\ Len(df_out.columns) = Len(df_in.columns)
                                  /\ df_out.rows = df_in.rows
                                  /\ \A i \in 1..Len(df_in.columns) :
                                        /\ Trims(df_in.columns[i]) # {}
                                        /\ \A t \in Trims(df_in.columns[i]) : df_out.columns[i] = Canonical(t)

\* C2 witness: a padded long form next to a padded unknown header.
C2_Witness == /\ pc = "cleaned"
              /\ df_in.columns = <<<<SP>> \o LongAchievement \o <<TAB>>, <<SP>> \o StateUT>>
              /\ df_out.columns = <<Achievement, StateUT>>

\* C3 as stated: every response whose status is not 2xx leaves the dashboard
\* without a table and with an error reported.
C3_Original == (Constructed /\ response.transport = "ok" /\ ~Is2xx(response.status)) =>
                  /\ maternal_health_data = None
                  /\ Errors # {}

\* C3 amended: a 4xx or 5xx status leaves the dashboard without a table, with the
\* request error reported and nothing raised; no other status is reported as a
\* request error.
C3_ErrorStatusYieldsNone == (Constructed /\ response.transport = "ok") =>
                               /\ IsErrorStatus(response.status) =>
                                     /\ maternal_health_data = None
                                     /\ st_out = <<FetchErrorMessage>>
                                     /\ raised = "none"
                               /\ ~IsErrorStatus(response.status) => FetchErrorMessage \notin {st_out[n] : n \in 1..Len(st_out)}

\* C3 witness: a 404 answered with a well-formed body.
C3_Witness == /\ pc = "ready"
              /\ response.status = 404
              /\ response.body.header = HeaderFull
              /\ maternal_health_data = None
              /\ st_out = <<FetchErrorMessage>>

\* C4: a 2xx response whose text cannot be parsed as CSV leaves the dashboard
\* without a table, with the processing error reported, and nothing is raised out
\* of the constructor.
C4_MalformedCsvYieldsNone == (pc # "new" /\ response.transport = "ok" /\ Is2xx(response.status) /\ MalformedCSV(response.body)) =>
                                /\ maternal_health_data = None
                                /\ \E e \in {"EmptyDataError", "ParserError"} : st_out = <<st_error(<<"An error occurred while processing the data: ", e>>)>>
                                /\ raised = "none"
                                /\ pc = "ready"

\* C4 witness: a 200 whose second data line has a field too many.
C4_Witness == /\ pc = "ready"
              /\ response.status = 200
              /\ ~response.body.empty
              /\ MalformedCSV(response.body)
              /\ st_out = <<st_error(<<"An error occurred while processing the data: ", "ParserError">>)>>

\* C5 as stated: a table that lacks a required column never becomes the
\* dashboard's table.
C5_Original == maternal_health_data # None => \A c \in RequiredColumns : HasColumn(maternal_health_data, c)

\* C5 amended: the table is absent exactly when the request, the status (4xx, 5xx)
\* or the parse failed, and then one message is reported and nothing is raised; a
\* missing column is no such failure, and the chart operation that needs the
\* column is where an exception is raised.
C5_OnlyFetchAndParseErrorsCaught == Constructed =>
                                       /\ maternal_health_data = None <=> \/ response.transport # "ok"
                                                                           \/ IsErrorStatus(response.status)
                                                                           \/ MalformedCSV(response.body)
                                       /\ maternal_health_data = None => (Len(st_out) = 1 /\ Errors = {1} /\ raised = "none")
                                       /\ maternal_health_data # None => Errors = {}
                                       /\ raised = "KeyError" => ~HasColumn(maternal_health_data, StateUT)
                                       /\ (maternal_health_data # None /\ ~HasColumn(maternal_health_data, StateUT) /\ calls # <<>>) => raised = "KeyError"
                                       /\ (maternal_health_data # None /\ ~HasColumn(maternal_health_data, Achievement) /\ calls # <<>>) => raised = "ValueError"

\* C5 witness: the table without an Achievement column was kept and the bubble
\* chart raised.
C5_Witness == /\ pc = "crashed"
              /\ maternal_health_data # None
              /\ ~HasColumn(maternal_health_data, Achievement)
              /\ calls = <<"bubble">>
              /\ raised = "ValueError"

\* C6: without a table, whatever chart operations are called, nothing but the
\* fetch's one message was ever shown, no figure was built, nothing was raised.
C6_AbsentTableNoOps == (Constructed /\ maternal_health_data = None) =>
                          /\ px_in = <<>>
                          /\ Len(st_out) = 1
                          /\ st_out[1].call = "error"
                          /\ raised = "none"
                          /\ pc = "ready"

\* C6 witness: both operations were called on a dashboard without a table.
C6_Witness == /\ maternal_health_data = None
              /\ \E i \in 1..Len(calls) : calls[i] = "bubble"
              /\ \E i \in 1..Len(calls) : calls[i] = "pie"

\* C7: a rendered bubble chart has one mark per row that is not the aggregate
\* row, in order, with x, y, size, colour and hover name the row's Need Assessed,
\* Achievement, % Achievement and State/UT cells as they are in the table.
C7_BubbleMarksAsProvided == \A n \in Rendered("scatter") :
                               LET df == maternal_health_data
                                   marks == st_out[n].fig.marks
                               IN  /\ \A c \in RequiredColumns : HasColumn(df, c)
                                   /\ Len(marks) = Cardinality(Kept(df))
                                   /\ \A i \in Kept(df) :
                                         marks[Rank(df, i)] = [x |-> df.rows[i][ColumnIndex(df, NeedAssessed)],
                                                               y |-> df.rows[i][ColumnIndex(df, Achievement)],
                                                               size |-> df.rows[i][ColumnIndex(df, PctAchievement)],
                                                               color |-> df.rows[i][ColumnIndex(df, StateUT)],
                                                               hover_name |-> df.rows[i][ColumnIndex(df, StateUT)]]

\* C7 witness: the rows (StateA, 100, 50, 50) and the aggregate row give the one
\* mark x = 100, y = 50, size = 50, label StateA.
C7_Witness == /\ Len(maternal_health_data.rows) = 2
              /\ HasAllIndiaRow(maternal_health_data)
              /\ \E n \in Rendered("scatter") :
                    st_out[n].fig.marks = <<[x |-> NUM(100), y |-> NUM(50), size |-> NUM(50), color |-> TXT("StateA"), hover_name |-> TXT("StateA")]>>

\* C8: the slice values of a rendered pie chart add up to the Achievement of the
\* rows that are not the aggregate row, and the slices are those rows' State/UT
\* and Achievement cells.
C8_PieSumIsAchievementSum == \A n \in Rendered("pie") :
                                LET df == maternal_health_data
                                    marks == st_out[n].fig.marks
                                IN  /\ HasColumn(df, StateUT) /\ HasColumn(df, Achievement)
                                    /\ SumValues(marks) = SumOver(df, Achievement, Kept(df))
                                    /\ Len(marks) = Cardinality(Kept(df))
                                    /\ \A i \in Kept(df) : marks[Rank(df, i)] = [names |-> df.rows[i][ColumnIndex(df, StateUT)],
                                                                                values |-> df.rows[i][ColumnIndex(df, Achievement)]]

\* C8 witness: a pie of two slices or more, of a table with an aggregate row.
C8_Witness == /\ HasAllIndiaRow(maternal_health_data)
              /\ \E n \in Rendered("pie") : /\ Len(st_out[n].fig.marks) >= 2
                                            /\ SumValues(st_out[n].fig.marks) = 120

C10_ChartOpsLeaveTableAlone == /\ [][Constructed => (maternal_health_data' = maternal_health_data /\ api_endpoint' = api_endpoint)]_vars
                               /\ [](\A m, n \in 1..Len(px_in) : px_in[m].fn = px_in[n].fn => px_in[m] = px_in[n])
                               /\ [](\A k \in {"scatter", "pie"} : \A m, n \in Rendered(k) : st_out[m] = st_out[n])

\* C10 witness: the bubble chart rendered twice, of a table with an aggregate row.
C10_Witness == /\ calls = <<"bubble", "bubble">>
               /\ Len(px_in) = 2
               /\ Cardinality(Rendered("scatter")) = 2
               /\ HasAllIndiaRow(maternal_health_data)
               /\ Kept(maternal_health_data) # {}

====
